---- MODULE Spec2Model ----
(***************************************************************************)
(* Model of RealtorScraper (src/main.py): the run loop, load_page with its *)
(* retries, scrape_data with its two nested exception handlers, the        *)
(* release of the browser in the finally clause and the CSV output.        *)
(*                                                                         *)
(* The web site and the browser are the environment.  Each call into       *)
(* Selenium either returns or raises; what it returns is drawn from small  *)
(* sets.  Under Spec every failure is an Exception (what Selenium raises); *)
(* under SpecAbort a KeyboardInterrupt/SystemExit (a BaseException that    *)
(* `except Exception` does not catch) may also arrive inside the try body. *)
(***************************************************************************)
EXTENDS Integers, Sequences, FiniteSets, TLC

\* ---------------------------------------------------------------- constants
\* while self.page <= 5
MaxPages == 5
\* def load_page(self, retries=3); run() always calls load_page()
retries == 3

\* ------------------------------------------------------------------- bounds
\* most records the accumulator holds in a run (find_elements returns no
\* more elements than still fit)
MaxData == 3
\* most elements find_elements returns for one page
MaxListings == 3
\* most fields of one listing element that are absent or have empty text
MaxOdd == 1

\* ------------------------------------------------------- listing elements
\* the lookups of the inner try block, in source order
FieldOrder == <<"link", "status", "price", "bed", "bath", "sqft", "lot_size", "address">>
Fields == {FieldOrder[i] : i \in 1..Len(FieldOrder)}
\* the fields written as  x or 'N/A'
Optional == {"bed", "bath", "sqft", "lot_size"}
Required == Fields \ Optional

\* What the DOM holds for one listing element: the fields whose element is
\* absent (find_element raises NoSuchElementException) and those whose element
\* is there with empty text.
Shapes ==
  {s \in [absent : SUBSET Fields, blank : SUBSET Optional] :
      /\ s.absent \cap s.blank = {}
      /\ Cardinality(s.absent) + Cardinality(s.blank) <= MaxOdd}

NoProp == [absent |-> {"-"}, blank |-> {}]

\* .text / get_attribute('href') of a field's element, once it was found
RawText(s, f) ==
  IF f \in s.blank THEN ""
  ELSE IF f = "link" THEN "https://x/1"
  ELSE IF f = "address" THEN "1  Main St"
  ELSE "txt"

\* ' '.join(text.split())
NormalizeSpace(t) == IF t = "1  Main St" THEN "1 Main St" ELSE t

\* x or 'N/A'
OrNA(t) == IF t = "" THEN "N/A" ELSE t

\* DataFrame columns: the keys of the dict literal, in order
Columns == <<"Property Status", "Price", "Bed", "Bath", "Sqft", "Lot Size", "Address", "Link">>

\* first field of the inner try block whose lookup raises, 0 when none does
FirstRaise(s) ==
  IF \E i \in 1..Len(FieldOrder) : FieldOrder[i] \in s.absent
  THEN CHOOSE i \in 1..Len(FieldOrder) :
         /\ FieldOrder[i] \in s.absent
         /\ \A j \in 1..(i-1) : FieldOrder[j] \notin s.absent
  ELSE 0

\* the dict built when all eight lookups returned
BuildRecord(s) ==
  [status   |-> RawText(s, "status"),
   price    |-> RawText(s, "price"),
   bed      |-> OrNA(RawText(s, "bed")),
   bath     |-> OrNA(RawText(s, "bath")),
   sqft     |-> OrNA(RawText(s, "sqft")),
   lot_size |-> OrNA(RawText(s, "lot_size")),
   address  |-> NormalizeSpace(RawText(s, "address")),
   link     |-> RawText(s, "link")]

\* a faulty variant of ToCsv: the rows in reverse order
ToCsvReversed(d) ==
  [header |-> Columns,
   rows |-> [i \in 1..Len(d) |->
               LET r == d[Len(d) + 1 - i]
               IN <<r.status, r.price, r.bed, r.bath, r.sqft, r.lot_size, r.address, r.link>>]]

\* pd.DataFrame(data).to_csv(index=False): header, then one row per record
RowOf(r) == <<r.status, r.price, r.bed, r.bath, r.sqft, r.lot_size, r.address, r.link>>
ToCsv(d) == [header |-> Columns, rows |-> [i \in 1..Len(d) |-> RowOf(d[i])]]

NoFile == [header |-> <<>>, rows |-> <<>>]

Min(a, b) == IF a < b THEN a ELSE b

\* -------------------------------------------------------------------- state
VARIABLES
  pc,          \* position in run()
  page,        \* self.page
  data,        \* self.data
  driver,      \* "open" | "quit"
  retry,       \* loop variable of load_page
  nprops,      \* len(properties)
  idx,         \* position of the for loop over properties (1-based)
  prop,        \* the element the for loop is at, as the DOM has it
  pending,     \* an exception is propagating out of the try block
  file,        \* output.csv (NoFile: not written)
  loaded,      \* what the last load_page call returned: "none" | "true" | "false"
  loadCalls,   \* calls of load_page
  scrapeCalls, \* calls of scrape_data
  navs,        \* driver.get calls of the current load_page call
  delays,      \* time.sleep calls of the current load_page call
  quitCalls,   \* calls of driver.quit
  writes       \* calls of to_csv

vars == <<pc, page, data, driver, retry, nprops, idx, prop, pending, file,
          loaded, loadCalls, scrapeCalls, navs, delays, quitCalls, writes>>

\* __init__
Init ==
  /\ pc = "while"
  /\ page = 1
  /\ data = <<>>
  /\ driver = "open"
  /\ retry = 0
  /\ nprops = 0
  /\ idx = 0
  /\ prop = NoProp
  /\ pending = FALSE
  /\ file = NoFile
  /\ loaded = "none"
  /\ loadCalls = 0
  /\ scrapeCalls = 0
  /\ navs = 0
  /\ delays = 0
  /\ quitCalls = 0
  /\ writes = 0

\* ---------------------------------------------------------------- load_page
\* a faulty variant of AttemptFailed: one attempt too few (range(1, retries))
AttemptFailedOffByOne ==
  /\ IF retry < retries - 1
     THEN /\ retry' = retry + 1
          /\ pc' = "sleep"
          /\ loaded' = loaded
     ELSE /\ retry' = retry
          /\ pc' = "finally"
          /\ loaded' = "false"
  /\ UNCHANGED <<page, data, driver, nprops, idx, prop, pending, file,
                 scrapeCalls, quitCalls, writes>>

\* an attempt raised inside the try of load_page: the handler logs, the for
\* loop goes to the next attempt or falls through to `return False`, on which
\* run() breaks out of the while loop
AttemptFailed ==
  /\ IF retry < retries
     THEN /\ retry' = retry + 1
          /\ pc' = "sleep"
          /\ loaded' = loaded
     ELSE /\ retry' = retry
          /\ pc' = "finally"
          /\ loaded' = "false"
  /\ UNCHANGED <<page, data, driver, nprops, idx, prop, pending, file,
                 scrapeCalls, quitCalls, writes>>

\* a faulty variant of WhileCond: the bound off by one (page <= 6)
WhileCondOffByOne == page <= MaxPages + 1

\* while self.page <= 5
WhileCond == page <= MaxPages

\* the loop condition holds: if not self.load_page(): ...  (entry of load_page)
WhileEnter ==
  /\ pc = "while"
  /\ WhileCond
  /\ loadCalls' = loadCalls + 1
  /\ navs' = 0
  /\ delays' = 0
  /\ IF retries >= 1
     THEN /\ retry' = 1
          /\ pc' = "sleep"
          /\ loaded' = "none"
     ELSE /\ retry' = 0
          /\ pc' = "finally"
          /\ loaded' = "false"
  /\ UNCHANGED <<page, data, driver, nprops, idx, prop, pending, file,
                 scrapeCalls, quitCalls, writes>>

\* while self.page <= 5 is false
WhileExit ==
  /\ pc = "while"
  /\ ~WhileCond
  /\ pc' = "finally"
  /\ UNCHANGED <<page, data, driver, retry, nprops, idx, prop, pending, file,
                 loaded, loadCalls, scrapeCalls, navs, delays, quitCalls, writes>>

\* time.sleep(random.uniform(1.5, 3.5))
LoadSleep ==
  /\ pc = "sleep"
  /\ delays' = delays + 1
  /\ pc' = "get"
  /\ UNCHANGED <<page, data, driver, retry, nprops, idx, prop, pending, file,
                 loaded, loadCalls, scrapeCalls, navs, quitCalls, writes>>

\* self.driver.get(url) returns
GetOk ==
  /\ pc = "get"
  /\ navs' = navs + 1
  /\ pc' = "wait"
  /\ UNCHANGED <<page, data, driver, retry, nprops, idx, prop, pending, file,
                 loaded, loadCalls, scrapeCalls, delays, quitCalls, writes>>

\* self.driver.get(url) raises
GetRaise ==
  /\ pc = "get"
  /\ navs' = navs + 1
  /\ AttemptFailed
  /\ UNCHANGED <<loadCalls, delays>>

\* WebDriverWait(...).until(presence_of_element_located(...)) returns:
\* load_page returns True
WaitOk ==
  /\ pc = "wait"
  /\ loaded' = "true"
  /\ pc' = "loaded"
  /\ UNCHANGED <<page, data, driver, retry, nprops, idx, prop, pending, file,
                 loadCalls, scrapeCalls, navs, delays, quitCalls, writes>>

\* `if not self.load_page()` is false: run() calls self.scrape_data(); the
\* locals of the finished load_page call are gone
ScrapeCall ==
  /\ pc = "loaded"
  /\ scrapeCalls' = scrapeCalls + 1
  /\ retry' = 0
  /\ navs' = 0
  /\ delays' = 0
  /\ pc' = "find"
  /\ UNCHANGED <<page, data, driver, nprops, idx, prop, pending, file,
                 loaded, loadCalls, quitCalls, writes>>

\* the wait times out (TimeoutException)
WaitTimeout ==
  /\ pc = "wait"
  /\ AttemptFailed
  /\ UNCHANGED <<loadCalls, navs, delays>>

\* -------------------------------------------------------------- scrape_data
\* scrape_data returns, its locals are gone, and run() executes self.page += 1
ScrapeReturn ==
  /\ page' = page + 1
  /\ pc' = "while"
  /\ nprops' = 0
  /\ idx' = 0
  /\ prop' = NoProp
  /\ UNCHANGED <<data, driver, retry, pending, file,
                 loaded, loadCalls, scrapeCalls, navs, delays, quitCalls, writes>>

\* properties = self.driver.find_elements(...)
FindElements ==
  /\ pc = "find"
  /\ \E n \in 0..Min(MaxListings, MaxData - Len(data)) :
       /\ nprops' = n
       /\ idx' = 1
  /\ pc' = "scroll"
  /\ UNCHANGED <<page, data, driver, retry, prop, pending, file,
                 loaded, loadCalls, scrapeCalls, navs, delays, quitCalls, writes>>

\* find_elements raises: control goes to the outer handler
FindRaise ==
  /\ pc = "find"
  /\ pc' = "except_page"
  /\ UNCHANGED <<page, data, driver, retry, nprops, idx, prop, pending, file,
                 loaded, loadCalls, scrapeCalls, navs, delays, quitCalls, writes>>

\* the for loop over properties is exhausted
ForDone ==
  /\ pc = "scroll"
  /\ idx > nprops
  /\ ScrapeReturn

\* execute_script(scrollIntoView, prop) returns; the DOM then holds some
\* shape for the element
ScrollOk ==
  /\ pc = "scroll"
  /\ idx <= nprops
  /\ prop' \in Shapes
  /\ pc' = "extract"
  /\ UNCHANGED <<page, data, driver, retry, nprops, idx, pending, file,
                 loaded, loadCalls, scrapeCalls, navs, delays, quitCalls, writes>>

\* a faulty variant of ScrollRaise: the scroll inside the inner try, so that the inner
\* handler catches it
ScrollRaiseCaughtInner ==
  /\ pc = "scroll"
  /\ idx <= nprops
  /\ pc' = "except_listing"
  /\ UNCHANGED <<page, data, driver, retry, nprops, idx, prop, pending, file,
                 loaded, loadCalls, scrapeCalls, navs, delays, quitCalls, writes>>

\* execute_script raises: it is outside the inner try, control goes to the
\* outer handler
ScrollRaise ==
  /\ pc = "scroll"
  /\ idx <= nprops
  /\ pc' = "except_page"
  /\ UNCHANGED <<page, data, driver, retry, nprops, idx, prop, pending, file,
                 loaded, loadCalls, scrapeCalls, navs, delays, quitCalls, writes>>

\* the inner try block runs to self.data.append(data)
ExtractAppend ==
  /\ pc = "extract"
  /\ FirstRaise(prop) = 0
  /\ data' = Append(data, BuildRecord(prop))
  /\ idx' = idx + 1
  /\ prop' = NoProp
  /\ pc' = "scroll"
  /\ UNCHANGED <<page, driver, retry, nprops, pending, file,
                 loaded, loadCalls, scrapeCalls, navs, delays, quitCalls, writes>>

\* a find_element of the inner try block raises: control goes to the inner
\* handler, which knows of the element only the lookup that raised (the
\* exception e names its selector)
ExtractRaise ==
  /\ pc = "extract"
  /\ FirstRaise(prop) # 0
  /\ prop' = [absent |-> {FieldOrder[FirstRaise(prop)]}, blank |-> {}]
  /\ pc' = "except_listing"
  /\ UNCHANGED <<page, data, driver, retry, nprops, idx, pending, file,
                 loaded, loadCalls, scrapeCalls, navs, delays, quitCalls, writes>>

\* a faulty variant of InnerHandler: the handler leaves the for loop (break)
InnerHandlerBreaks ==
  /\ pc = "except_listing"
  /\ ScrapeReturn

\* except Exception as e: logging.debug('Error fetching data') (the inner
\* handler); the for loop goes to the next element
InnerHandler ==
  /\ pc = "except_listing"
  /\ idx' = idx + 1
  /\ prop' = NoProp
  /\ pc' = "scroll"
  /\ UNCHANGED <<page, data, driver, retry, nprops, pending, file,
                 loaded, loadCalls, scrapeCalls, navs, delays, quitCalls, writes>>

\* a faulty variant of OuterHandler: the handler logs and raises again
OuterHandlerReraise ==
  /\ pc = "except_page"
  /\ pending' = TRUE
  /\ pc' = "finally"
  /\ UNCHANGED <<page, data, driver, retry, nprops, idx, prop, file,
                 loaded, loadCalls, scrapeCalls, navs, delays, quitCalls, writes>>

\* except Exception as e: logging.debug('No properties found on page') (the
\* outer handler), after which scrape_data returns
OuterHandler ==
  /\ pc = "except_page"
  /\ ScrapeReturn

\* --------------------------------------------------------------- end of run
\* a faulty variant of Quit: quit() after the loop instead of in a finally clause, so
\* that a propagating exception skips it
QuitSkippedOnException ==
  /\ pc = "finally"
  /\ IF pending
     THEN /\ pc' = "raised"
          /\ UNCHANGED <<driver, quitCalls>>
     ELSE /\ pc' = "save"
          /\ driver' = "quit"
          /\ quitCalls' = quitCalls + 1
  /\ UNCHANGED <<page, data, retry, nprops, idx, prop, pending, file,
                 loaded, loadCalls, scrapeCalls, navs, delays, writes>>

\* a faulty variant of Quit: `return` instead of `break` on a failed load, so that run()
\* ends after the finally clause
QuitThenReturn ==
  /\ pc = "finally"
  /\ driver' = "quit"
  /\ quitCalls' = quitCalls + 1
  /\ pc' = IF pending THEN "raised" ELSE IF loaded = "false" THEN "done" ELSE "save"
  /\ UNCHANGED <<page, data, retry, nprops, idx, prop, pending, file,
                 loaded, loadCalls, scrapeCalls, navs, delays, writes>>

\* a faulty variant of Quit: the file written inside the try block, before quit()
QuitPersistFirst ==
  /\ pc = "finally"
  /\ driver' = "quit"
  /\ quitCalls' = quitCalls + 1
  /\ IF pending
     THEN pc' = "raised" /\ UNCHANGED <<file, writes>>
     ELSE /\ pc' = "done"
          /\ file' = IF data # <<>> THEN ToCsv(data) ELSE file
          /\ writes' = IF data # <<>> THEN writes + 1 ELSE writes
  /\ UNCHANGED <<page, data, retry, nprops, idx, prop, pending,
                 loaded, loadCalls, scrapeCalls, navs, delays>>

\* finally: self.driver.quit(); a propagating exception then leaves run()
Quit ==
  /\ pc = "finally"
  /\ driver' = "quit"
  /\ quitCalls' = quitCalls + 1
  /\ pc' = IF pending THEN "raised" ELSE "save"
  /\ UNCHANGED <<page, data, retry, nprops, idx, prop, pending, file,
                 loaded, loadCalls, scrapeCalls, navs, delays, writes>>

\* if self.data: pd.DataFrame(self.data).to_csv('output.csv', index=False)
SaveCsv ==
  /\ pc = "save"
  /\ data # <<>>
  /\ file' = ToCsv(data)
  /\ writes' = writes + 1
  /\ pc' = "done"
  /\ UNCHANGED <<page, data, driver, retry, nprops, idx, prop, pending,
                 loaded, loadCalls, scrapeCalls, navs, delays, quitCalls>>

\* else: logging.debug('No data was scraped.')
SaveNothing ==
  /\ pc = "save"
  /\ data = <<>>
  /\ pc' = "done"
  /\ UNCHANGED <<page, data, driver, retry, nprops, idx, prop, pending, file,
                 loaded, loadCalls, scrapeCalls, navs, delays, quitCalls, writes>>

\* a BaseException that is no Exception (KeyboardInterrupt, SystemExit)
\* arrives inside load_page: no handler of load_page catches it, its frame is
\* unwound
AbortLoad ==
  /\ pc \in {"sleep", "get", "wait"}
  /\ pending' = TRUE
  /\ pc' = "finally"
  /\ retry' = 0
  /\ navs' = 0
  /\ delays' = 0
  /\ UNCHANGED <<page, data, driver, nprops, idx, prop, file,
                 loaded, loadCalls, scrapeCalls, quitCalls, writes>>

\* the same inside scrape_data: neither handler catches it
AbortScrape ==
  /\ pc \in {"find", "scroll", "extract", "except_listing", "except_page"}
  /\ pending' = TRUE
  /\ pc' = "finally"
  /\ nprops' = 0
  /\ idx' = 0
  /\ prop' = NoProp
  /\ UNCHANGED <<page, data, driver, retry, file,
                 loaded, loadCalls, scrapeCalls, navs, delays, quitCalls, writes>>

\* ------------------------------------------------------------ specifications
Next ==
  \/ WhileEnter \/ WhileExit
  \/ LoadSleep \/ GetOk \/ GetRaise \/ WaitOk \/ WaitTimeout \/ ScrapeCall
  \/ FindElements \/ FindRaise \/ ForDone \/ ScrollOk \/ ScrollRaise
  \/ ExtractAppend \/ ExtractRaise \/ InnerHandler \/ OuterHandler
  \/ Quit \/ SaveCsv \/ SaveNothing

Spec == Init /\ [][Next]_vars

NextAbort == Next \/ AbortLoad \/ AbortScrape

SpecAbort == Init /\ [][NextAbort]_vars

\* ------------------------------------------------------------------ helpers
LoadPcs == {"sleep", "get", "wait", "loaded"}
ScrapePcs == {"find", "scroll", "extract", "except_listing", "except_page"}
\* run() is past its while loop
Exited == pc \in {"finally", "save", "done", "raised"}
\* the rows of the written file are the records of d, in the order of d
RowsAre(d) ==
  /\ Len(file.rows) = Len(d)
  /\ \A i \in 1..Len(d) :
       /\ file.rows[i][1] = d[i].status
       /\ file.rows[i][2] = d[i].price
       /\ file.rows[i][3] = d[i].bed
       /\ file.rows[i][4] = d[i].bath
       /\ file.rows[i][5] = d[i].sqft
       /\ file.rows[i][6] = d[i].lot_size
       /\ file.rows[i][7] = d[i].address
       /\ file.rows[i][8] = d[i].link

\* ----------------------------------------------------------------------- C1
C1Inv ==
  /\ page \in 1..(MaxPages + 1)
  /\ loadCalls <= MaxPages
  /\ pc = "while" => loadCalls = page - 1 /\ scrapeCalls = page - 1
  /\ pc \in LoadPcs => loadCalls = page /\ scrapeCalls = page - 1
  /\ pc \in ScrapePcs => loadCalls = page /\ scrapeCalls = page /\ loaded = "true"
  /\ Exited =>
       \/ page = MaxPages + 1 /\ loadCalls = MaxPages /\ scrapeCalls = MaxPages
                              /\ loaded = "true"
       \/ page <= MaxPages /\ loaded = "false" /\ loadCalls = page
                           /\ scrapeCalls = page - 1

C1Step ==
  /\ page' # page => page' = page + 1 /\ pc \in ScrapePcs /\ pc' = "while"
  /\ loadCalls' # loadCalls => loadCalls' = loadCalls + 1 /\ pc = "while"
  /\ scrapeCalls' # scrapeCalls =>
       scrapeCalls' = scrapeCalls + 1 /\ loaded = "true" /\ pc = "loaded"
  /\ (loaded' = "false" /\ loaded # "false") =>
       pc' = "finally" /\ page' = page /\ scrapeCalls' = scrapeCalls
  /\ (pc = "while" /\ pc' = "finally") => page > MaxPages

\* most steps one iteration of the while loop takes: the loop test, three
\* steps per attempt of load_page, the call of scrape_data, find_elements,
\* three steps per listing element, the end of the for loop and the return
IterationSteps == 3 * retries + 3 * MaxListings + 5

\* a bound on the steps run() still takes, by position
C1Rank ==
  LET after == (MaxPages - page) * IterationSteps + 3
      left  == nprops - idx + 1
  IN  CASE pc = "done"           -> 0
        [] pc = "raised"         -> 0
        [] pc = "save"           -> 1
        [] pc = "finally"        -> 2
        [] pc = "while"          -> (MaxPages + 1 - page) * IterationSteps + 3
        [] pc = "sleep"          -> after + 3 * MaxListings + 3 * (retries - retry) + 7
        [] pc = "get"            -> after + 3 * MaxListings + 3 * (retries - retry) + 6
        [] pc = "wait"           -> after + 3 * MaxListings + 3 * (retries - retry) + 5
        [] pc = "loaded"         -> after + 3 * MaxListings + 4
        [] pc = "find"           -> after + 3 * MaxListings + 3
        [] pc = "scroll"         -> after + 3 * left + 2
        [] pc = "extract"        -> after + 3 * left + 1
        [] pc = "except_listing" -> after + 3 * left
        [] pc = "except_page"    -> after + 1

\* C1: (run loop) the page counter starts at 1 and stays within 1..6; every
\* iteration is one load_page call; a failed load leaves the loop without
\* extraction and without advancing the counter; a successful one is followed
\* by one scrape_data call and an advance of the counter by exactly 1; there
\* are at most 5 load_page calls; the loop is left only with the counter above
\* 5 or after a failed load; and the run terminates: until run() has returned
\* a step is possible, and every step lowers the bound C1Rank >= 0 on the
\* steps left.
C1_RunLoop ==
  /\ [](C1Inv /\ C1Rank >= 0 /\ (pc = "done" \/ ENABLED Next))
  /\ [][C1Step /\ C1Rank' < C1Rank]_vars

\* all five pages loaded and extracted, the loop left by its bound
C1_Witness ==
  pc = "done" /\ page = MaxPages + 1 /\ loadCalls = MaxPages /\ scrapeCalls = MaxPages

\* ----------------------------------------------------------------------- C2
C2Inv ==
  /\ quitCalls <= 1
  /\ pc \in {"save", "done", "raised"} => driver = "quit" /\ quitCalls = 1
  /\ pc \notin {"save", "done", "raised"} => driver = "open" /\ quitCalls = 0

C2Step ==
  /\ pc = "finally" => driver' = "quit" /\ quitCalls' = 1
  /\ driver = "quit" =>
       /\ loadCalls' = loadCalls /\ scrapeCalls' = scrapeCalls
       /\ navs' = navs /\ data' = data /\ page' = page
       /\ pc' \notin LoadPcs \cup ScrapePcs \cup {"while"}

\* C2: (release) once the loop is left, by its bound, by a failed load or by
\* an exception propagating out of load_page or scrape_data, the next thing
\* that happens is driver.quit; it is called exactly once in a run; and after
\* it no page is loaded and nothing is extracted.
C2_ReleasedOnce == []C2Inv /\ [][C2Step]_vars

\* the loop was left by an exception and the browser was released
C2_Witness == pc = "raised" /\ pending /\ driver = "quit" /\ quitCalls = 1

\* ----------------------------------------------------------------------- C3
C3Inv ==
  (pc = "done" /\ loaded = "false") =>
     /\ navs = retries
     /\ loadCalls = page
     /\ scrapeCalls = page - 1
     /\ data # <<>> => writes = 1 /\ RowsAre(data)

C3Step ==
  /\ \/ data' = data
     \/ Len(data') = Len(data) + 1 /\ SubSeq(data', 1, Len(data)) = data
  /\ loaded = "false" =>
       data' = data /\ loadCalls' = loadCalls /\ scrapeCalls' = scrapeCalls

\* C3: (load failure) when load_page has failed for page N with all its
\* retries used, no further page is loaded or extracted, the accumulator only
\* ever grew by appends, and at the end of the run a non-empty accumulator
\* has been written to the file, all its records included.
C3_LoadFailureKeepsData == []C3Inv /\ [][C3Step]_vars

\* the load of page 3 failed after two pages with records, which are saved
C3_Witness ==
  /\ pc = "done" /\ loaded = "false" /\ page = 3
  /\ Len(data) = 2 /\ writes = 1 /\ Len(file.rows) = 2

\* ----------------------------------------------------------------------- C4
\* C4: (output) a file is written at most once and only as the last step of
\* run(); at the end of run() no file exists when the accumulator is empty,
\* and otherwise the file was written once and its rows are the accumulator's
\* records in accumulator order.
C4_OutputMatchesData ==
  /\ writes <= 1
  /\ pc # "done" => writes = 0 /\ file = NoFile
  /\ (pc = "done" /\ data = <<>>) => writes = 0 /\ file = NoFile
  /\ (pc = "done" /\ data # <<>>) =>
       writes = 1 /\ file.header = Columns /\ RowsAre(data)

\* two different records were collected and written in their order
C4_Witness ==
  /\ pc = "done" /\ Len(data) = 2 /\ data[1] # data[2]
  /\ writes = 1 /\ Len(file.rows) = 2

\* ----------------------------------------------------------------------- C5
\* the record the claim expects for a listing of shape sh
C5Expected(sh) ==
  [status   |-> "txt",
   price    |-> "txt",
   bed      |-> IF "bed" \in sh.absent \cup sh.blank THEN "N/A" ELSE "txt",
   bath     |-> IF "bath" \in sh.absent \cup sh.blank THEN "N/A" ELSE "txt",
   sqft     |-> IF "sqft" \in sh.absent \cup sh.blank THEN "N/A" ELSE "txt",
   lot_size |-> IF "lot_size" \in sh.absent \cup sh.blank THEN "N/A" ELSE "txt",
   address  |-> "1 Main St",
   link     |-> "https://x/1"]

\* C5: (optional fields) a listing whose link, status, price and address
\* elements are there and whose bed, bath, sqft or lot-size element is absent
\* still appends one record, with 'N/A' in the absent fields and the real
\* values in the others.
C5_OptionalFailureSwallowed ==
  [][(pc = "extract" /\ prop.absent # {} /\ prop.absent \subseteq Optional) =>
        data' = Append(data, C5Expected(prop))]_vars

\* ----------------------------------------------------------------------- C6
C6Step ==
  /\ (pc = "extract" /\ prop.absent \cap Required # {}) =>
        /\ pc' = "except_listing" /\ prop'.absent \subseteq prop.absent
        /\ data' = data /\ idx' = idx /\ nprops' = nprops /\ page' = page
  /\ pc = "except_listing" =>
        /\ data' = data
        /\ pc' = "scroll" /\ idx' = idx + 1
        /\ nprops' = nprops /\ page' = page /\ scrapeCalls' = scrapeCalls
  /\ (pc = "scroll" /\ idx <= nprops) => pc' \in {"extract", "except_page"}

\* C6: (required fields) a listing whose link, status, price or address
\* lookup raises appends nothing and changes no record; the inner handler
\* catches the failure and only that listing is given up: the for loop stays
\* on the same page and goes to the next element, and while elements are
\* left the next one is scrolled to.
C6_RequiredFailureSkipsListing == [][C6Step]_vars

\* the second of three listings has lost a required field and the inner
\* handler has caught the failure, with the record of the first one there
C6_Witness ==
  /\ pc = "except_listing" /\ prop.absent \cap Required # {}
  /\ idx = 2 /\ nprops = 3 /\ Len(data) = 1

\* ----------------------------------------------------------------------- C7
C7Inv ==
  /\ retry <= retries /\ navs <= retries /\ delays <= retries
  /\ pc = "sleep" => delays = retry - 1 /\ navs = retry - 1
  /\ pc = "get" => delays = retry /\ navs = retry - 1
  /\ pc = "wait" => delays = retry /\ navs = retry
  /\ pc = "loaded" => loaded = "true" /\ delays = retry /\ navs = retry
  /\ loaded = "false" => navs = retries /\ delays = retries
  /\ ~pending /\ pc # "raised"

C7Step ==
  /\ navs' > navs => navs' = navs + 1 /\ delays = navs + 1 /\ loaded = "none"
  /\ pc = "loaded" => pc' = "find" /\ scrapeCalls' = scrapeCalls + 1 /\ page' = page
  /\ (loaded # "true" /\ loaded' = "true") => pc = "wait" /\ pc' = "loaded"

\* C7: (load_page) a call makes at most `retries` navigations, each after a
\* delay of its own; the first attempt whose navigation and wait both return
\* ends the call with success, and run() then calls scrape_data for that
\* page; the call returns failure only when `retries` attempts have failed;
\* a failed attempt never raises out of load_page.
C7_LoadPageRetries == []C7Inv /\ [][C7Step]_vars

\* attempt 1 failed, attempt 2 succeeded: load_page has returned True
C7_Witness == pc = "loaded" /\ loaded = "true" /\ retry = 2 /\ navs = 2

\* ----------------------------------------------------------------------- C8
\* C8 as the spec states it: the records are persisted before the browser
\* session is released, so a released session with records implies a written
\* file
C8_PersistBeforeRelease == (driver = "quit" /\ data # <<>>) => writes = 1

C8Inv ==
  /\ pc \in LoadPcs \cup ScrapePcs \cup {"while", "finally"} =>
        driver = "open" /\ writes = 0
  /\ pc = "save" => driver = "quit" /\ writes = 0
  /\ pc = "done" => driver = "quit" /\ (writes = 1 <=> data # <<>>)

\* C8 amended: the order of events is initialize session, page loop, release
\* session, persist accumulated records: the file is only written once
\* driver.quit has been called.
C8_ReleaseBeforePersist ==
  []C8Inv /\ [][writes' # writes => driver = "quit" /\ quitCalls = 1]_vars

\* the run is over, the session released and the records written
C8_Witness == pc = "done" /\ driver = "quit" /\ writes = 1 /\ Len(data) = 2

\* ----------------------------------------------------------------------- C9
C9Step ==
  /\ pc \in ScrapePcs =>
        /\ pc' \in ScrapePcs \cup {"while"}
        /\ ~pending' /\ driver' = "open"
  /\ (pc \in ScrapePcs /\ pc' = "while") => page' = page + 1 /\ data' = data
  /\ (pc = "scroll" /\ nprops = 0) => data' = data /\ pc' = "while"
  /\ pc \in {"except_listing", "except_page"} => data' = data
  /\ (pc = "while" /\ page <= MaxPages) =>
        pc' = "sleep" /\ loadCalls' = loadCalls + 1 /\ page' = page

\* C9: (scrape_data) no step of scrape_data leaves the run loop or raises: a
\* page without listing elements adds no record, whatever a handler catches
\* the call returns, the page counter then advances by 1, and with the
\* counter within the bound the next step is the load of the next page.
C9_ScrapeNeverRaises == [](~pending /\ pc # "raised") /\ [][C9Step]_vars

\* scrape_data has run once, for page 1, nothing was collected, and the loop
\* is at page 2
C9_Witness ==
  pc = "while" /\ page = 2 /\ scrapeCalls = 1 /\ data = <<>> /\ driver = "open"

\* ---------------------------------------------------------------------- C10
C10Step ==
  /\ (pc = "scroll" /\ idx <= nprops /\ pc' # "extract") =>
        /\ pc' = "except_page"
        /\ data' = data /\ idx' = idx /\ nprops' = nprops /\ page' = page
  /\ pc = "except_page" =>
        /\ data' = data
        /\ pc' = "while" /\ page' = page + 1
        /\ ~pending' /\ driver' = "open"

\* C10: (scroll failure) when scrolling listing i into view raises, the outer
\* handler catches it: the for loop is left at i, so no later listing of the
\* page is processed, no record is changed, and the run goes on with the
\* next page.
C10_ScrollFailureEndsPage == [][C10Step]_vars

\* listing 1 of page 1 was appended, the scroll to listing 2 raised and the
\* outer handler has caught it; listing 3 is left unprocessed
C10_Witness ==
  /\ pc = "except_page" /\ page = 1
  /\ idx = 2 /\ nprops = 3 /\ Len(data) = 1

====
